---- MODULE Spec2Model ----
(***************************************************************************)
(* wgpu_graphics (src/src/lib.rs): the Piston 2D back-end on wgpu.         *)
(*                                                                         *)
(* The model covers the pipeline tables built by Wgpu2d::new, the two      *)
(* vertex buffers owned by Wgpu2d, the per-frame WgpuGraphics (draw state, *)
(* texture, output extent, command encoder) and every operation that       *)
(* records into the encoder: the four tri_list* submit calls with their    *)
(* vertex callbacks, clear_color, clear_stencil and draw (finish frame).   *)
(*                                                                         *)
(* Option<T> is modelled as a sequence of length 0 (None) or 1 (Some).     *)
(* A vertex is a record that carries, besides its identity (frame, n),     *)
(* the kind, the DrawState and the texture it was submitted with; the      *)
(* code keeps none of the three in the vertex, they are history tags       *)
(* that the properties read.                                               *)
(***************************************************************************)
EXTENDS Integers, Sequences, FiniteSets, TLC

VARIABLES
    colored_render_pipelines,   \* Wgpu2d.colored_render_pipelines
    textured_render_pipelines,  \* Wgpu2d.textured_render_pipelines
    colored_data,               \* Wgpu2d.colored_data
    textured_data,              \* Wgpu2d.textured_data
    pc,                         \* where the caller of the library is
    width,                      \* WgpuGraphics.width
    height,                     \* WgpuGraphics.height
    draw_state,                 \* WgpuGraphics.draw_state
    texture,                    \* WgpuGraphics.texture
    stencil_view,               \* WgpuGraphics.stencil_view
    textures_created,           \* textures the device has created for frames
    passes,                     \* render passes recorded in command_encoder
    frame,                      \* history: number of frames begun
    submitted,                  \* history: vertices and clears of this frame, in call order
    ops,                        \* history: submit calls and clears so far
    abandoned                   \* history: some frame was dropped without draw()

vars == <<colored_render_pipelines, textured_render_pipelines, colored_data,
          textured_data, pc, width, height, draw_state, texture, passes,
          frame, submitted, ops, abandoned, stencil_view, textures_created>>

----------------------------------------------------------------------------
(* Bounds of the model.                                                    *)

\* Frames begun in one behaviour.
MaxFrames == 2
\* Submit calls and clears in one behaviour.
MaxOps == 3
\* Invocations of the vertex callback in one submit call.
MaxCallbacks == 2
\* Longest attribute list handed to a vertex callback.
MaxChunk == 3
\* graphics::BACK_END_MAX_VERTEX_COUNT, scaled down (lib.rs:552).
BUFFER_SIZE == 1
\* const CHUNKS: usize = 100, scaled down (lib.rs:556).
CHUNKS == 3

SOFT_BUFFER_LIMIT == CHUNKS * BUFFER_SIZE

----------------------------------------------------------------------------
(* Values.                                                                 *)

None == <<>>
Some(x) == <<x>>

Min(a, b) == IF a <= b THEN a ELSE b

\* Option<Blend>
Blends == {None, Some("Alpha"), Some("Add"), Some("Lighter"),
           Some("Multiply"), Some("Invert")}

\* Stencil reference values used by the callers of the model.
StencilVals == {1, 2}

\* Option<Stencil>
Stencils == {None, Some(<<"Increment">>)}
            \cup {Some(<<t, v>>) : t \in {"Clip", "Inside", "Outside"}, v \in StencilVals}

Kinds == {"colored", "textured"}

\* DrawState::default() of the graphics crate: alpha blending, no stencil, no scissor.
DefaultDrawState == [blend |-> Some("Alpha"), stencil |-> None, scissor |-> None]

Rect1 == <<1, 1, 2, 2>>

\* The DrawStates the callers of the model pass: the default one and one
\* that differs from it in every field.
DrawStates ==
    { DefaultDrawState,
      [blend |-> Some("Invert"), stencil |-> Some(<<"Clip", 1>>),
       scissor |-> Some(Rect1)] }

\* Textures the callers own; Texture equality is identity of the GPU objects.
Textures == {"texA", "texB"}

\* A Texture that is no valid binding for the passes of this Wgpu2d: one
\* created through the TextureContext of another device.
InvalidTextures == {"texOther"}

\* Surface configurations (width, height) a frame is created with.
Extents == {<<4, 3>>, <<2, 2>>}

Colors == {"red"}

\* Pixels are <<x, y>>; a region is a set of pixels.  R1 and R2 overlap in
\* one pixel and leave one pixel of a 2 x 2 target to neither.
R1 == {<<0, 0>>, <<1, 0>>}
R2 == {<<1, 0>>, <<1, 1>>}
Regions == {R1, R2}
ClearVals == {0}

\* The stencil aspect of Depth24PlusStencil8 holds 8 bits.
STENCIL_MAX == 255

----------------------------------------------------------------------------
(* Pipeline tables: PsoBlend, PsoStencil, Wgpu2d::new.                     *)

\* wgpu::StencilFaceState::IGNORE, which is also StencilFaceState::default().
StencilFaceIgnore ==
    [compare |-> "Always", fail_op |-> "Keep", depth_fail_op |-> "Keep",
     pass_op |-> "Keep"]

stencil_none ==
    [front |-> StencilFaceIgnore, back |-> StencilFaceIgnore,
     read_mask |-> 0, write_mask |-> 0]
\* stencil_clip with the comparison left at its default.
stencil_clip_Always ==
    [front |-> [StencilFaceIgnore EXCEPT !.fail_op = "Replace"],
     back |-> [StencilFaceIgnore EXCEPT !.fail_op = "Replace"],
     read_mask |-> 255, write_mask |-> 255]

stencil_clip ==
    [front |-> [StencilFaceIgnore EXCEPT !.compare = "Never", !.fail_op = "Replace"],
     back |-> [StencilFaceIgnore EXCEPT !.compare = "Never", !.fail_op = "Replace"],
     read_mask |-> 255, write_mask |-> 255]
\* stencil_inside with the comparison of stencil_outside.
stencil_inside_NotEqual ==
    [front |-> [StencilFaceIgnore EXCEPT !.compare = "NotEqual"],
     back |-> [StencilFaceIgnore EXCEPT !.compare = "NotEqual"],
     read_mask |-> 255, write_mask |-> 255]

stencil_inside ==
    [front |-> [StencilFaceIgnore EXCEPT !.compare = "Equal"],
     back |-> [StencilFaceIgnore EXCEPT !.compare = "Equal"],
     read_mask |-> 255, write_mask |-> 255]
\* stencil_outside with the comparison of stencil_inside.
stencil_outside_Equal ==
    [front |-> [StencilFaceIgnore EXCEPT !.compare = "Equal"],
     back |-> [StencilFaceIgnore EXCEPT !.compare = "Equal"],
     read_mask |-> 255, write_mask |-> 255]

stencil_outside ==
    [front |-> [StencilFaceIgnore EXCEPT !.compare = "NotEqual"],
     back |-> [StencilFaceIgnore EXCEPT !.compare = "NotEqual"],
     read_mask |-> 255, write_mask |-> 255]
\* stencil_increment with the wrapping increment.
stencil_increment_Wrap ==
    [front |-> [StencilFaceIgnore EXCEPT !.compare = "Never", !.fail_op = "IncrementWrap"],
     back |-> [StencilFaceIgnore EXCEPT !.compare = "Never", !.fail_op = "IncrementWrap"],
     read_mask |-> 255, write_mask |-> 255]

stencil_increment ==
    [front |-> [StencilFaceIgnore EXCEPT !.compare = "Never", !.fail_op = "IncrementClamp"],
     back |-> [StencilFaceIgnore EXCEPT !.compare = "Never", !.fail_op = "IncrementClamp"],
     read_mask |-> 255, write_mask |-> 255]

\* std::mem::size_of::<f32>(), also the alignment of f32 and of [f32; n].
size_of_f32 == 4

\* std::mem::size_of::<[f32; n]>()
size_of_array(n) == n * size_of_f32

\* The vertex structs: their fields, in declaration order, each [f32; len].
ColoredPipelineInput ==
    <<[name |-> "position", len |-> 2], [name |-> "color", len |-> 4]>>
TexturedPipelineInput ==
    <<[name |-> "xy", len |-> 2], [name |-> "uv", len |-> 2],
      [name |-> "color", len |-> 4]>>

\* x rounded up to a multiple of a.
AlignUp(x, a) == ((x + a - 1) \div a) * a

\* #[repr(C)]: the byte offset of the k-th field, each field placed at the
\* next multiple of its alignment after the field before.
RECURSIVE offset_of(_, _)
offset_of(fields, k) ==
    IF k = 1 THEN 0
    ELSE AlignUp(offset_of(fields, k - 1) + size_of_array(fields[k - 1].len),
                 size_of_f32)

\* std::mem::size_of of a #[repr(C)] struct: the end of its last field,
\* rounded up to the alignment of the struct.
size_of(fields) ==
    AlignUp(offset_of(fields, Len(fields)) + size_of_array(fields[Len(fields)].len),
            size_of_f32)

\* wgpu::VertexFormat::size
VertexFormatSize(format) ==
    CASE format = "Float32x2" -> 8
      [] format = "Float32x4" -> 16

\* ColoredPipelineInput::desc
ColoredPipelineInput_desc ==
    [array_stride |-> size_of(ColoredPipelineInput),
     step_mode |-> "Vertex",
     attributes |->
        <<[offset |-> 0, shader_location |-> 0, format |-> "Float32x2"],
          [offset |-> size_of_array(2), shader_location |-> 1,
           format |-> "Float32x4"]>>]

\* TexturedPipelineInput::desc with the offset of color written like the
\* offset of uv.
TexturedPipelineInput_desc_ColorAtUv ==
    [array_stride |-> size_of(TexturedPipelineInput),
     step_mode |-> "Vertex",
     attributes |->
        <<[offset |-> 0, shader_location |-> 0, format |-> "Float32x2"],
          [offset |-> size_of_array(2), shader_location |-> 1,
           format |-> "Float32x2"],
          [offset |-> size_of_array(2), shader_location |-> 2,
           format |-> "Float32x4"]>>]

\* TexturedPipelineInput::desc
TexturedPipelineInput_desc ==
    [array_stride |-> size_of(TexturedPipelineInput),
     step_mode |-> "Vertex",
     attributes |->
        <<[offset |-> 0, shader_location |-> 0, format |-> "Float32x2"],
          [offset |-> size_of_array(2), shader_location |-> 1,
           format |-> "Float32x2"],
          [offset |-> size_of_array(4), shader_location |-> 2,
           format |-> "Float32x4"]>>]

\* vertex.buffers of the pipeline descriptor in the closure that creates
\* the pipelines of a kind: the same for all thirty.
vertex_buffers(kind) ==
    <<IF kind = "colored" THEN ColoredPipelineInput_desc
      ELSE TexturedPipelineInput_desc>>

\* The closure Wgpu2d::new hands to PsoStencil::new: one call of
\* device.create_render_pipeline.  n is the number of pipelines the device
\* has created before the call; the new object is the (n+1)-th.
create_render_pipeline(kind, blend, stencil, n) ==
    [id |-> n + 1, kind |-> kind, blend |-> blend, stencil |-> stencil,
     depth_compare |-> "Always", depth_write_enabled |-> FALSE,
     write_mask |-> "ALL"]

\* One PsoBlend literal of PsoStencil::new: six calls of f, in field order.
PsoBlendNew(kind, stencil, n) ==
    [none     |-> create_render_pipeline(kind, None, stencil, n),
     alpha    |-> create_render_pipeline(kind, Some("ALPHA_BLENDING"), stencil, n + 1),
     add      |-> create_render_pipeline(kind, Some("blend_add"), stencil, n + 2),
     lighter  |-> create_render_pipeline(kind, Some("blend_lighter"), stencil, n + 3),
     multiply |-> create_render_pipeline(kind, Some("blend_multiply"), stencil, n + 4),
     invert   |-> create_render_pipeline(kind, Some("blend_invert"), stencil, n + 5)]

\* PsoStencil::new with the outside row built from stencil_inside.
PsoStencilNew_OutsideFromInside(kind, n) ==
    [none      |-> PsoBlendNew(kind, stencil_none, n),
     clip      |-> PsoBlendNew(kind, stencil_clip, n + 6),
     inside    |-> PsoBlendNew(kind, stencil_inside, n + 12),
     outside   |-> PsoBlendNew(kind, stencil_inside, n + 18),
     increment |-> PsoBlendNew(kind, stencil_increment, n + 24)]

\* PsoStencil::new: thirty calls of f, in field order.
PsoStencilNew(kind, n) ==
    [none      |-> PsoBlendNew(kind, stencil_none, n),
     clip      |-> PsoBlendNew(kind, stencil_clip, n + 6),
     inside    |-> PsoBlendNew(kind, stencil_inside, n + 12),
     outside   |-> PsoBlendNew(kind, stencil_outside, n + 18),
     increment |-> PsoBlendNew(kind, stencil_increment, n + 24)]

\* blend with Add answered from the alpha field.
blend_AddAsAlpha(pso, b) ==
    CASE b = None -> pso.none
      [] b = Some("Alpha") -> pso.alpha
      [] b = Some("Add") -> pso.alpha
      [] b = Some("Lighter") -> pso.lighter
      [] b = Some("Multiply") -> pso.multiply
      [] b = Some("Invert") -> pso.invert

\* PsoBlend::blend
blend(pso, b) ==
    CASE b = None -> pso.none
      [] b = Some("Alpha") -> pso.alpha
      [] b = Some("Add") -> pso.add
      [] b = Some("Lighter") -> pso.lighter
      [] b = Some("Multiply") -> pso.multiply
      [] b = Some("Invert") -> pso.invert

\* A plausible slip in stencil_blend: Outside looked up in the Inside row.
stencil_blend_OutsideAsInside(pso, stencil, b) ==
    CASE stencil = None -> <<blend(pso.none, b), None>>
      [] stencil # None /\ stencil[1][1] = "Clip" -> <<blend(pso.clip, b), Some(stencil[1][2])>>
      [] stencil # None /\ stencil[1][1] = "Inside" -> <<blend(pso.inside, b), Some(stencil[1][2])>>
      [] stencil # None /\ stencil[1][1] = "Outside" -> <<blend(pso.inside, b), Some(stencil[1][2])>>
      [] stencil # None /\ stencil[1][1] = "Increment" -> <<blend(pso.increment, b), None>>

\* stencil_blend returning no reference value for Outside.
stencil_blend_OutsideNoReference(pso, stencil, b) ==
    CASE stencil = None -> <<blend(pso.none, b), None>>
      [] stencil # None /\ stencil[1][1] = "Clip" -> <<blend(pso.clip, b), Some(stencil[1][2])>>
      [] stencil # None /\ stencil[1][1] = "Inside" -> <<blend(pso.inside, b), Some(stencil[1][2])>>
      [] stencil # None /\ stencil[1][1] = "Outside" -> <<blend(pso.outside, b), None>>
      [] stencil # None /\ stencil[1][1] = "Increment" -> <<blend(pso.increment, b), None>>

\* PsoStencil::stencil_blend: the pipeline and the reference value, if any.
stencil_blend(pso, stencil, b) ==
    CASE stencil = None -> <<blend(pso.none, b), None>>
      [] stencil # None /\ stencil[1][1] = "Clip" -> <<blend(pso.clip, b), Some(stencil[1][2])>>
      [] stencil # None /\ stencil[1][1] = "Inside" -> <<blend(pso.inside, b), Some(stencil[1][2])>>
      [] stencil # None /\ stencil[1][1] = "Outside" -> <<blend(pso.outside, b), Some(stencil[1][2])>>
      [] stencil # None /\ stencil[1][1] = "Increment" -> <<blend(pso.increment, b), None>>

----------------------------------------------------------------------------
(* The frame: WgpuGraphics and the buffers it borrows from Wgpu2d.         *)
(* The operators below work on a record g of the fields a handler reads    *)
(* and writes; panic is set when the handler has panicked.                 *)
(* A pass is a record of what was recorded into it.  Two of its fields     *)
(* are history tags: kind (which function recorded it) and state (the      *)
(* DrawState the flush read); other_pending is the length of the other     *)
(* buffer when the flush began.                                            *)

G == [colored_data |-> colored_data, textured_data |-> textured_data,
      draw_state |-> draw_state, texture |-> texture, passes |-> passes,
      stencil_view |-> stencil_view, panic |-> FALSE]

WHITE == "WHITE"
Load == <<"Load">>
Clear(v) == <<"Clear", v>>

\* scissor_rect with width and height exchanged in the default rectangle.
scissor_rect_Transposed(ds) ==
    IF ds.scissor # None THEN ds.scissor[1] ELSE <<0, 0, height, width>>

\* The scissor rectangle of command_colored / command_textured.
scissor_rect(ds) ==
    IF ds.scissor # None THEN ds.scissor[1] ELSE <<0, 0, width, height>>

\* The calls command_colored makes on its render pass, with the blend
\* constant set after the draw call.
colored_calls_ConstantLast(ref) ==
    <<"set_pipeline", "set_scissor_rect">>
    \o (IF ref # None THEN <<"set_stencil_reference">> ELSE <<>>)
    \o <<"set_vertex_buffer", "draw", "set_blend_constant">>

\* The calls command_colored makes on its render pass, in order.
colored_calls(ref) ==
    <<"set_blend_constant", "set_pipeline", "set_scissor_rect">>
    \o (IF ref # None THEN <<"set_stencil_reference">> ELSE <<>>)
    \o <<"set_vertex_buffer", "draw">>

\* The calls command_textured makes on its render pass, in order.
textured_calls(ref) ==
    <<"set_blend_constant", "set_pipeline", "set_scissor_rect">>
    \o (IF ref # None THEN <<"set_stencil_reference">> ELSE <<>>)
    \o <<"set_bind_group", "set_vertex_buffer", "draw">>

\* WgpuGraphics::command_colored: one pass with one draw call over the
\* whole colored buffer, which is then cleared.
command_colored(g) ==
    LET r == stencil_blend(colored_render_pipelines, g.draw_state.stencil,
                           g.draw_state.blend)
        pass == [label |-> "Colored Render Pass",
                 color_load |-> Load, stencil_load |-> Load,
                 stencil_attachment |-> g.stencil_view,
                 blend_constant |-> Some(WHITE),
                 pipeline |-> Some(r[1]),
                 scissor |-> Some(scissor_rect(g.draw_state)),
                 stencil_ref |-> r[2],
                 bind_group |-> None,
                 vertex_buffer |-> g.colored_data,
                 draw |-> Some(Len(g.colored_data)),
                 calls |-> colored_calls(r[2]),
                 other_pending |-> Len(g.textured_data),
                 kind |-> "colored", state |-> Some(g.draw_state)]
    IN [g EXCEPT !.passes = Append(@, pass), !.colored_data = <<>>]

\* command_textured ending, like command_colored, with
\* colored_data.clear().
command_textured_ClearsColored(g) ==
    IF g.texture = None
    THEN [g EXCEPT !.panic = TRUE]
    ELSE
    LET r == stencil_blend(textured_render_pipelines, g.draw_state.stencil,
                           g.draw_state.blend)
        pass == [label |-> "Colored Render Pass",
                 color_load |-> Load, stencil_load |-> Load,
                 stencil_attachment |-> g.stencil_view,
                 blend_constant |-> Some(WHITE),
                 pipeline |-> Some(r[1]),
                 scissor |-> Some(scissor_rect(g.draw_state)),
                 stencil_ref |-> r[2],
                 bind_group |-> Some(g.texture[1]),
                 vertex_buffer |-> g.textured_data,
                 draw |-> Some(Len(g.textured_data)),
                 calls |-> textured_calls(r[2]),
                 other_pending |-> Len(g.colored_data),
                 kind |-> "textured", state |-> Some(g.draw_state)]
    IN [g EXCEPT !.passes = Append(@, pass), !.colored_data = <<>>]

\* WgpuGraphics::command_textured: the same for the textured buffer, with
\* the bind group of self.texture; self.texture.unwrap() panics on None.
command_textured(g) ==
    IF g.texture = None
    THEN [g EXCEPT !.panic = TRUE]
    ELSE
    LET r == stencil_blend(textured_render_pipelines, g.draw_state.stencil,
                           g.draw_state.blend)
        pass == [label |-> "Colored Render Pass",
                 color_load |-> Load, stencil_load |-> Load,
                 stencil_attachment |-> g.stencil_view,
                 blend_constant |-> Some(WHITE),
                 pipeline |-> Some(r[1]),
                 scissor |-> Some(scissor_rect(g.draw_state)),
                 stencil_ref |-> r[2],
                 bind_group |-> Some(g.texture[1]),
                 vertex_buffer |-> g.textured_data,
                 draw |-> Some(Len(g.textured_data)),
                 calls |-> textured_calls(r[2]),
                 other_pending |-> Len(g.colored_data),
                 kind |-> "textured", state |-> Some(g.draw_state)]
    IN [g EXCEPT !.passes = Append(@, pass), !.textured_data = <<>>]

\* The pass of clear_color / clear_stencil: begun and dropped at once.
ClearPass(g, label, color_load, stencil_load) ==
    [label |-> label, color_load |-> color_load, stencil_load |-> stencil_load,
     stencil_attachment |-> g.stencil_view,
     blend_constant |-> None, pipeline |-> None, scissor |-> None,
     stencil_ref |-> None, bind_group |-> None, vertex_buffer |-> <<>>,
     draw |-> None, calls |-> <<>>, other_pending |-> 0, kind |-> "clear",
     state |-> None]

\* "if self.wgpu2d.colored_data.len() > 0 { self.command_colored(); }"
FlushColoredIfAny(g) ==
    IF ~g.panic /\ Len(g.colored_data) > 0 THEN command_colored(g) ELSE g

\* "if self.wgpu2d.textured_data.len() > 0 { self.command_textured(); }"
FlushTexturedIfAny(g) ==
    IF ~g.panic /\ Len(g.textured_data) > 0 THEN command_textured(g) ELSE g

----------------------------------------------------------------------------
(* Submit calls: the code before f, the caller's vertex source, runs.       *)

\* A submit call that flushes whatever is pending of its kind.
submit_flush_Always(len, ds, cur) == TRUE

\* The flush test of a submit call on its own buffer (lib.rs:988-989 and
\* the three copies of it).
submit_flush(len, ds, cur) ==
    len + BUFFER_SIZE >= SOFT_BUFFER_LIMIT \/ ds # cur

\* Graphics::tri_list up to the call of f.
tri_list_begin(g, ds) ==
    LET g1 == IF Len(g.colored_data) > 0
                 /\ submit_flush(Len(g.colored_data), ds, g.draw_state)
              THEN command_colored(g) ELSE g
        g2 == FlushTexturedIfAny(g1)
    IN IF g2.panic THEN g2 ELSE [g2 EXCEPT !.draw_state = ds]

\* Graphics::tri_list_c up to the call of f.
tri_list_c_begin(g, ds) ==
    LET g1 == IF Len(g.colored_data) > 0
                 /\ submit_flush(Len(g.colored_data), ds, g.draw_state)
              THEN command_colored(g) ELSE g
        g2 == FlushTexturedIfAny(g1)
    IN IF g2.panic THEN g2 ELSE [g2 EXCEPT !.draw_state = ds]

\* tri_list_uv that does not store the texture it is called with.
tri_list_uv_begin_NoTexture(g, ds, tex) ==
    LET g1 == FlushColoredIfAny(g)
        g2 == IF g1.panic \/ Len(g1.textured_data) = 0 THEN g1
              ELSE IF submit_flush(Len(g1.textured_data), ds, g1.draw_state)
                   THEN command_textured(g1)
              ELSE IF g1.texture # None /\ tex # g1.texture[1]
                   THEN command_textured(g1)
              ELSE g1
    IN IF g2.panic THEN g2
       ELSE [g2 EXCEPT !.draw_state = ds]

\* Graphics::tri_list_uv up to the call of f.
tri_list_uv_begin(g, ds, tex) ==
    LET g1 == FlushColoredIfAny(g)
        g2 == IF g1.panic \/ Len(g1.textured_data) = 0 THEN g1
              ELSE IF submit_flush(Len(g1.textured_data), ds, g1.draw_state)
                   THEN command_textured(g1)
              ELSE IF g1.texture # None /\ tex # g1.texture[1]
                   THEN command_textured(g1)
              ELSE g1
    IN IF g2.panic THEN g2
       ELSE [g2 EXCEPT !.texture = Some(tex), !.draw_state = ds]

\* Graphics::tri_list_uv_c up to the call of f.
tri_list_uv_c_begin(g, ds, tex) ==
    LET g1 == FlushColoredIfAny(g)
        g2 == IF g1.panic \/ Len(g1.textured_data) = 0 THEN g1
              ELSE IF submit_flush(Len(g1.textured_data), ds, g1.draw_state)
                   THEN command_textured(g1)
              ELSE IF g1.texture # None /\ tex # g1.texture[1]
                   THEN command_textured(g1)
              ELSE g1
    IN IF g2.panic THEN g2
       ELSE [g2 EXCEPT !.texture = Some(tex), !.draw_state = ds]

----------------------------------------------------------------------------
(* Vertex callbacks: the closures the submit calls hand to f.  f invokes   *)
(* the closure once per chunk; chunks is the list of the chunks.            *)
(* A chunk given as a list of positions stands for attribute lists        *)
(* (positions, uvs, colors) of that one length; the inputs operators below *)
(* take the lists apart, with lengths of their own.                        *)

\* A callback that never flushes on capacity.
callback_flush_Never(len) == FALSE

\* A callback that flushes only once the buffer is past the threshold.
callback_flush_Late(len) ==
    len + BUFFER_SIZE > SOFT_BUFFER_LIMIT

\* The flush test of a vertex callback (lib.rs:998 and its three copies).
callback_flush(len) ==
    len + BUFFER_SIZE >= SOFT_BUFFER_LIMIT

\* The vertices of one chunk, numbered from first in submission order,
\* tagged with the arguments of the submit call.  positions is the chunk
\* the closure is called with; a position is given as the pixels that the
\* triangle closed by the vertex covers.
NewVertices(first, positions, kind, ds, tex) ==
    [i \in 1..Len(positions) |->
        [frame |-> frame, n |-> first + i - 1, kind |-> kind, ds |-> ds,
         texture |-> tex, chunk |-> Len(positions), position |-> positions[i]]]

\* A zip that drops the surplus of a longer second list at its front.
zip_FromEnd(xs, ys) ==
    LET m == Min(Len(xs), Len(ys))
    IN [i \in 1..m |-> <<xs[i], ys[Len(ys) - m + i]>>]

\* Iterator::zip: pairs until either iterator ends.
zip(xs, ys) ==
    [i \in 1..Min(Len(xs), Len(ys)) |-> <<xs[i], ys[i]>>]

\* The ColoredPipelineInput values the closure of tri_list_c makes of its
\* two lists (a colored input has no uv).
colored_inputs(positions, colors) ==
    LET z == zip(positions, colors)
    IN [i \in 1..Len(z) |-> [position |-> z[i][1], uv |-> None, color |-> z[i][2]]]

\* The TexturedPipelineInput values the closure of tri_list_uv makes of
\* its two lists and the color of the call.
textured_inputs(xys, uvs, color) ==
    LET z == zip(xys, uvs)
    IN [i \in 1..Len(z) |-> [position |-> z[i][1], uv |-> Some(z[i][2]), color |-> color]]

\* The TexturedPipelineInput values the closure of tri_list_uv_c makes of
\* its three lists: xys.zip(uvs).zip(colors).
textured_inputs_c(xys, uvs, colors) ==
    LET z == zip(zip(xys, uvs), colors)
    IN [i \in 1..Len(z) |->
           [position |-> z[i][1][1], uv |-> Some(z[i][1][2]), color |-> z[i][2]]]

\* The vertices of one chunk with their attributes; given is a history
\* tag, the lengths of the lists the closure was called with.
InputVertices(first, inputs, given, kind, ds, tex) ==
    [i \in 1..Len(inputs) |->
        [frame |-> frame, n |-> first + i - 1, kind |-> kind, ds |-> ds,
         texture |-> tex, chunk |-> Len(inputs), position |-> inputs[i].position,
         uv |-> inputs[i].uv, color |-> inputs[i].color, given |-> given]]

\* The closure of tri_list / tri_list_c: flush if the buffer is near the
\* limit, then extend colored_data.
colored_callback(g, vs) ==
    LET g1 == IF callback_flush(Len(g.colored_data)) THEN command_colored(g) ELSE g
    IN [g1 EXCEPT !.colored_data = @ \o vs]

\* The closure of tri_list_uv / tri_list_uv_c.
textured_callback(g, vs) ==
    LET g1 == IF callback_flush(Len(g.textured_data)) THEN command_textured(g) ELSE g
    IN IF g1.panic THEN g1 ELSE [g1 EXCEPT !.textured_data = @ \o vs]

\* f of a colored submit call: the closure once per chunk, in order.
RECURSIVE colored_f(_, _, _, _)
colored_f(g, chunks, first, ds) ==
    IF chunks = <<>> \/ g.panic THEN g
    ELSE colored_f(colored_callback(g, NewVertices(first, Head(chunks), "colored", ds, None)),
                   Tail(chunks), first + Len(Head(chunks)), ds)

\* f of a textured submit call.
RECURSIVE textured_f(_, _, _, _, _)
textured_f(g, chunks, first, ds, tex) ==
    IF chunks = <<>> \/ g.panic THEN g
    ELSE textured_f(textured_callback(g, NewVertices(first, Head(chunks), "textured",
                                                     ds, Some(tex))),
                    Tail(chunks), first + Len(Head(chunks)), ds, tex)

\* All vertices of a submit call, in submission order.
RECURSIVE AllVertices(_, _, _, _, _)
AllVertices(chunks, first, kind, ds, tex) ==
    IF chunks = <<>> THEN <<>>
    ELSE NewVertices(first, Head(chunks), kind, ds, tex)
         \o AllVertices(Tail(chunks), first + Len(Head(chunks)), kind, ds, tex)

\* Graphics::tri_list
tri_list(g, ds, chunks) ==
    colored_f(tri_list_begin(g, ds), chunks, Len(submitted) + 1, ds)

\* Graphics::tri_list_c
tri_list_c(g, ds, chunks) ==
    colored_f(tri_list_c_begin(g, ds), chunks, Len(submitted) + 1, ds)

\* Graphics::tri_list_uv
tri_list_uv(g, ds, tex, chunks) ==
    textured_f(tri_list_uv_begin(g, ds, tex), chunks, Len(submitted) + 1, ds, tex)

\* Graphics::tri_list_uv_c
tri_list_uv_c(g, ds, tex, chunks) ==
    textured_f(tri_list_uv_c_begin(g, ds, tex), chunks, Len(submitted) + 1, ds, tex)

----------------------------------------------------------------------------
(* Clears and finish.                                                      *)

\* clear_color recording its pass without flushing what is pending.
clear_color_NoFlush(g, color) ==
    [g EXCEPT !.passes =
        Append(@, ClearPass(g, "Clear Color Render Pass", Clear(color), Load))]

\* clear_color whose pass clears the stencil attachment as well.
clear_color_ClearsStencil(g, color) ==
    LET g2 == FlushTexturedIfAny(FlushColoredIfAny(g))
    IN IF g2.panic THEN g2
       ELSE [g2 EXCEPT !.passes =
                Append(@, ClearPass(g, "Clear Color Render Pass", Clear(color), Clear(0)))]

\* Graphics::clear_color
clear_color(g, color) ==
    LET g2 == FlushTexturedIfAny(FlushColoredIfAny(g))
    IN IF g2.panic THEN g2
       ELSE [g2 EXCEPT !.passes =
                Append(@, ClearPass(g, "Clear Color Render Pass", Clear(color), Load))]

\* clear_stencil whose pass clears the color attachment as well.
clear_stencil_ClearsColor(g, value) ==
    LET g2 == FlushTexturedIfAny(FlushColoredIfAny(g))
    IN IF g2.panic THEN g2
       ELSE [g2 EXCEPT !.passes =
                Append(@, ClearPass(g, "Clear Stencil Render Pass", Clear("black"),
                                    Clear(value)))]

\* Graphics::clear_stencil
clear_stencil(g, value) ==
    LET g2 == FlushTexturedIfAny(FlushColoredIfAny(g))
    IN IF g2.panic THEN g2
       ELSE [g2 EXCEPT !.passes =
                Append(@, ClearPass(g, "Clear Stencil Render Pass", Load, Clear(value)))]

\* draw flushing the colored buffer only.
draw_ColoredOnly(g) == FlushColoredIfAny(g)

\* WgpuGraphics::draw: flush what is pending, finish the encoder.
draw(g) ==
    FlushTexturedIfAny(FlushColoredIfAny(g))

----------------------------------------------------------------------------
(* The state machine.                                                      *)

\* No WgpuGraphics exists: before the first frame, after draw() returned,
\* after a WgpuGraphics was dropped without draw().
NoFrame == {"idle", "finished", "dropped"}

\* Chunk lists: at most calls invocations of the closure, each with at
\* most len vertices, at the given positions.
ChunkListsOf(calls, len, positions) ==
    UNION {[1..k -> UNION {[1..n -> positions] : n \in 0..len}] : k \in 0..calls}

\* What f delivers in Spec: at most one chunk, of a length the graphics
\* crate keeps to (at most BUFFER_SIZE).
ShortLists == ChunkListsOf(1, 1, {R1})

\* What f delivers in SpecCapacity: k chunks of n vertices each, also with
\* n above BUFFER_SIZE.
ChunkLists ==
    {[i \in 1..k |-> [j \in 1..n |-> R1]] : k \in 0..MaxCallbacks, n \in 0..MaxChunk}

\* Wgpu2d::new: both tables built, both buffers empty.
Init ==
    /\ colored_render_pipelines = PsoStencilNew("colored", 0)
    /\ textured_render_pipelines = PsoStencilNew("textured", 30)
    /\ colored_data = <<>>
    /\ textured_data = <<>>
    /\ pc = "idle"
    /\ width = 0
    /\ height = 0
    /\ draw_state = DefaultDrawState
    /\ texture = None
    /\ passes = <<>>
    /\ frame = 0
    /\ submitted = <<>>
    /\ ops = 0
    /\ abandoned = FALSE
    /\ stencil_view = [id |-> 0, size |-> <<0, 0>>]
    /\ textures_created = 0

\* The fields of g written back.  A panic unwinds out of the frame; the
\* model follows the program no further.
Commit(g, next_pc) ==
    /\ colored_data' = g.colored_data
    /\ textured_data' = g.textured_data
    /\ draw_state' = g.draw_state
    /\ texture' = g.texture
    /\ passes' = g.passes
    /\ pc' = IF g.panic THEN "panicked" ELSE next_pc

\* The texture and view that device.create_texture and create_view return:
\* a new object, the (n+1)-th, of the given size.
create_texture(size, n) == [id |-> n + 1, size |-> size]

\* WgpuGraphics::new callable while a WgpuGraphics exists, as it would be
\* if the frame held a shared reference to the Wgpu2d.
BeginFrame_WhileFrame(extent) ==
    /\ pc \in NoFrame \cup {"frame"}
    /\ frame < MaxFrames
    /\ width' = extent[1]
    /\ height' = extent[2]
    /\ draw_state' = DefaultDrawState
    /\ texture' = None
    /\ stencil_view' = create_texture(extent, textures_created)
    /\ textures_created' = textures_created + 1
    /\ passes' = <<>>
    /\ pc' = "frame"
    /\ frame' = frame + 1
    /\ submitted' = <<>>
    /\ UNCHANGED <<colored_render_pipelines, textured_render_pipelines,
                   colored_data, textured_data, ops, abandoned>>

\* WgpuGraphics::new recording into the command encoder of the frame
\* before instead of a new one.
BeginFrame_SharedEncoder(extent) ==
    /\ pc \in NoFrame
    /\ frame < MaxFrames
    /\ width' = extent[1]
    /\ height' = extent[2]
    /\ draw_state' = DefaultDrawState
    /\ texture' = None
    /\ stencil_view' = create_texture(extent, textures_created)
    /\ textures_created' = textures_created + 1
    /\ passes' = passes
    /\ pc' = "frame"
    /\ frame' = frame + 1
    /\ submitted' = <<>>
    /\ UNCHANGED <<colored_render_pipelines, textured_render_pipelines,
                   colored_data, textured_data, ops, abandoned>>

\* WgpuGraphics::new taking the stencil view of the frame before, if there
\* was one.
BeginFrame_SharedStencil(extent) ==
    /\ pc \in NoFrame
    /\ frame < MaxFrames
    /\ width' = extent[1]
    /\ height' = extent[2]
    /\ draw_state' = DefaultDrawState
    /\ texture' = None
    /\ IF textures_created = 0
       THEN /\ stencil_view' = create_texture(extent, textures_created)
            /\ textures_created' = textures_created + 1
       ELSE UNCHANGED <<stencil_view, textures_created>>
    /\ passes' = <<>>
    /\ pc' = "frame"
    /\ frame' = frame + 1
    /\ submitted' = <<>>
    /\ UNCHANGED <<colored_render_pipelines, textured_render_pipelines,
                   colored_data, textured_data, ops, abandoned>>

\* WgpuGraphics::new (the first statement of Wgpu2d::draw).
BeginFrame(extent) ==
    /\ pc \in NoFrame
    /\ frame < MaxFrames
    /\ width' = extent[1]
    /\ height' = extent[2]
    /\ draw_state' = DefaultDrawState
    /\ texture' = None
    /\ stencil_view' = create_texture(extent, textures_created)
    /\ textures_created' = textures_created + 1
    /\ passes' = <<>>
    /\ pc' = "frame"
    /\ frame' = frame + 1
    /\ submitted' = <<>>
    /\ UNCHANGED <<colored_render_pipelines, textured_render_pipelines,
                   colored_data, textured_data, ops, abandoned>>

\* An operation of a frame that builds the pipelines again.
Frozen_Rebuilt ==
    /\ colored_render_pipelines' = PsoStencilNew("colored", 60)
    /\ textured_render_pipelines' = PsoStencilNew("textured", 90)
    /\ UNCHANGED <<width, height, frame, abandoned, stencil_view, textures_created>>

Frozen == UNCHANGED <<colored_render_pipelines, textured_render_pipelines,
                      width, height, frame, abandoned, stencil_view,
                      textures_created>>

\* What a clear leaves in submitted, the history of the frame's calls.
ClearColorMark(color) == [frame |-> frame, kind |-> "clear_color", color |-> color]
ClearStencilMark(value) == [frame |-> frame, kind |-> "clear_stencil", value |-> value]

\* What a submit call leaves in the history variables.
Submitted(g, chunks, kind, ds, tex) ==
    /\ ops' = ops + 1
    /\ submitted' = IF g.panic THEN submitted
                    ELSE submitted \o AllVertices(chunks, Len(submitted) + 1, kind, ds, tex)

TriList(ds, chunks) ==
    /\ pc = "frame" /\ ops < MaxOps
    /\ LET g == tri_list(G, ds, chunks)
       IN Commit(g, "frame") /\ Submitted(g, chunks, "colored", ds, None)
    /\ Frozen

TriListC(ds, chunks) ==
    /\ pc = "frame" /\ ops < MaxOps
    /\ LET g == tri_list_c(G, ds, chunks)
       IN Commit(g, "frame") /\ Submitted(g, chunks, "colored", ds, None)
    /\ Frozen

TriListUv(ds, tex, chunks) ==
    /\ pc = "frame" /\ ops < MaxOps
    /\ LET g == tri_list_uv(G, ds, tex, chunks)
       IN Commit(g, "frame") /\ Submitted(g, chunks, "textured", ds, Some(tex))
    /\ Frozen

TriListUvC(ds, tex, chunks) ==
    /\ pc = "frame" /\ ops < MaxOps
    /\ LET g == tri_list_uv_c(G, ds, tex, chunks)
       IN Commit(g, "frame") /\ Submitted(g, chunks, "textured", ds, Some(tex))
    /\ Frozen

ClearColor(color) ==
    /\ pc = "frame" /\ ops < MaxOps
    /\ Commit(clear_color(G, color), "frame")
    /\ ops' = ops + 1
    /\ submitted' = Append(submitted, ClearColorMark(color))
    /\ Frozen

ClearStencil(value) ==
    /\ pc = "frame" /\ ops < MaxOps
    /\ Commit(clear_stencil(G, value), "frame")
    /\ ops' = ops + 1
    /\ submitted' = Append(submitted, ClearStencilMark(value))
    /\ Frozen

\* WgpuGraphics::draw (the last statement of Wgpu2d::draw): passes is the
\* returned command buffer.
Draw ==
    /\ pc = "frame"
    /\ Commit(draw(G), "finished")
    /\ UNCHANGED <<submitted, ops>> /\ Frozen

\* The WgpuGraphics is dropped without draw(): a caller of
\* WgpuGraphics::new lets it go, or the callback of Wgpu2d::draw unwinds.
\* WgpuGraphics has no Drop; the buffers of Wgpu2d stay as they are.
Drop ==
    /\ pc = "frame"
    /\ pc' = "dropped"
    /\ abandoned' = TRUE
    /\ UNCHANGED <<colored_render_pipelines, textured_render_pipelines,
                   colored_data, textured_data, width, height, draw_state,
                   texture, passes, frame, submitted, ops, stencil_view,
                   textures_created>>

\* Any DrawState, any texture, short chunk lists.
Next ==
    \/ \E extent \in Extents : BeginFrame(extent)
    \/ \E ds \in DrawStates, chunks \in ShortLists : TriList(ds, chunks)
    \/ \E ds \in DrawStates, chunks \in ShortLists : TriListC(ds, chunks)
    \/ \E ds \in DrawStates, tex \in Textures, chunks \in ShortLists :
          TriListUv(ds, tex, chunks)
    \/ \E ds \in DrawStates, tex \in Textures, chunks \in ShortLists :
          TriListUvC(ds, tex, chunks)
    \/ \E color \in Colors : ClearColor(color)
    \/ \E value \in ClearVals : ClearStencil(value)
    \/ Draw
    \/ Drop

Spec == Init /\ [][Next]_vars

\* The capacity logic: one extent, one DrawState, one texture, any chunk list, and
\* at most two calls in a behaviour (one that fills a buffer, one that
\* finds it filled).
NextCapacity ==
    \/ BeginFrame(<<4, 3>>)
    \/ \E chunks \in ChunkLists : ops < 2 /\ TriList(DefaultDrawState, chunks)
    \/ \E chunks \in ChunkLists : ops < 2 /\ TriListC(DefaultDrawState, chunks)
    \/ \E chunks \in ChunkLists : ops < 2 /\ TriListUv(DefaultDrawState, "texA", chunks)
    \/ \E chunks \in ChunkLists : ops < 2 /\ TriListUvC(DefaultDrawState, "texA", chunks)
    \/ \E color \in Colors : ops < 2 /\ ClearColor(color)
    \/ \E value \in ClearVals : ops < 2 /\ ClearStencil(value)
    \/ Draw
    \/ Drop

SpecCapacity == Init /\ [][NextCapacity]_vars

\* Chunk lists as the graphics crate hands them over: any number of
\* chunks up to one more than fill a buffer, each of at most BUFFER_SIZE
\* vertices.
ShortChunkLists ==
    {[i \in 1..k |-> [j \in 1..n |-> R1]] : k \in 0..CHUNKS + 1, n \in 0..BUFFER_SIZE}

\* Short chunks: frames on one extent with at most two submit calls in a
\* behaviour, colored or textured, with one DrawState and one texture;
\* frames are finished or dropped.
NextShortChunks ==
    \/ BeginFrame(<<4, 3>>)
    \/ \E chunks \in ShortChunkLists : ops < 2 /\ TriList(DefaultDrawState, chunks)
    \/ \E chunks \in ShortChunkLists :
          ops < 2 /\ TriListUv(DefaultDrawState, "texA", chunks)
    \/ Draw
    \/ Drop

SpecShortChunks == Init /\ [][NextShortChunks]_vars

\* Submit calls whose f calls the closure once, with attribute lists of
\* any lengths.
TriListCZip(ds, positions, colors) ==
    /\ pc = "frame" /\ ops < MaxOps
    /\ LET vs == InputVertices(Len(submitted) + 1, colored_inputs(positions, colors),
                               <<Len(positions), Len(colors)>>, "colored", ds, None)
           g == colored_callback(tri_list_c_begin(G, ds), vs)
       IN /\ Commit(g, "frame")
          /\ ops' = ops + 1
          /\ submitted' = IF g.panic THEN submitted ELSE submitted \o vs
    /\ Frozen

TriListUvZip(ds, tex, color, xys, uvs) ==
    /\ pc = "frame" /\ ops < MaxOps
    /\ LET vs == InputVertices(Len(submitted) + 1, textured_inputs(xys, uvs, color),
                               <<Len(xys), Len(uvs)>>, "textured", ds, Some(tex))
           g == textured_callback(tri_list_uv_begin(G, ds, tex), vs)
       IN /\ Commit(g, "frame")
          /\ ops' = ops + 1
          /\ submitted' = IF g.panic THEN submitted ELSE submitted \o vs
    /\ Frozen

TriListUvCZip(ds, tex, xys, uvs, colors) ==
    /\ pc = "frame" /\ ops < MaxOps
    /\ LET vs == InputVertices(Len(submitted) + 1, textured_inputs_c(xys, uvs, colors),
                               <<Len(xys), Len(uvs), Len(colors)>>, "textured", ds,
                               Some(tex))
           g == textured_callback(tri_list_uv_c_begin(G, ds, tex), vs)
       IN /\ Commit(g, "frame")
          /\ ops' = ops + 1
          /\ submitted' = IF g.panic THEN submitted ELSE submitted \o vs
    /\ Frozen

\* Attribute lists of up to MaxChunk elements, the i-th element of a list
\* different from its other elements: positions (one pixel of a 2 x 2
\* target each), uvs and colors.
PositionLists ==
    {[i \in 1..n |-> {<<(i - 1) % 2, ((i - 1) \div 2) % 2>>}] : n \in 0..MaxChunk}
UvLists == {[i \in 1..n |-> <<"uv", i>>] : n \in 0..MaxChunk}
ColorLists == {[i \in 1..n |-> <<"color", i>>] : n \in 0..MaxChunk}

\* Attribute lists: one frame on a 2 x 2 target with at most two submit
\* calls, each with attribute lists of independent lengths.
NextZip ==
    \/ frame < 1 /\ BeginFrame(<<2, 2>>)
    \/ \E positions \in PositionLists, colors \in ColorLists :
          ops < 2 /\ TriListCZip(DefaultDrawState, positions, colors)
    \/ \E xys \in PositionLists, uvs \in UvLists :
          ops < 2 /\ TriListUvZip(DefaultDrawState, "texA", <<"color", 0>>, xys, uvs)
    \/ \E xys \in PositionLists, uvs \in UvLists, colors \in ColorLists :
          ops < 2 /\ TriListUvCZip(DefaultDrawState, "texA", xys, uvs, colors)
    \/ Draw

SpecZip == Init /\ [][NextZip]_vars

\* A scissor rectangle inside a 2 x 2 target: its left column.
Rect0 == <<0, 0, 1, 2>>

\* The stencil variants, with two reference values where the second
\* matters, each with the alpha blend and no scissor; and DrawStates that
\* differ from one of these in the blend alone or in the scissor alone.
StencilDrawStates ==
    {[blend |-> Some("Alpha"), stencil |-> st, scissor |-> None] :
        st \in {None, Some(<<"Increment">>), Some(<<"Clip", 1>>), Some(<<"Clip", 2>>),
                Some(<<"Inside", 1>>), Some(<<"Inside", 2>>), Some(<<"Outside", 1>>)}}
    \cup {[blend |-> Some("Add"), stencil |-> None, scissor |-> None],
          [blend |-> Some("Alpha"), stencil |-> Some(<<"Increment">>),
           scissor |-> Some(Rect0)],
          [blend |-> Some("Alpha"), stencil |-> Some(<<"Clip", 1>>),
           scissor |-> Some(Rect0)]}

InsideOne == [blend |-> Some("Alpha"), stencil |-> Some(<<"Inside", 1>>), scissor |-> None]

\* The stencil logic: one frame on a 2 x 2 target, at most three calls,
\* each submit one triangle over R1 or R2 (textured ones unclipped or
\* inside the region stamped 1, with a valid or an invalid texture), and
\* stencil clears to both ends of the range.
NextStencil ==
    \/ frame < 1 /\ BeginFrame(<<2, 2>>)
    \/ \E ds \in StencilDrawStates, r \in Regions :
          ops < 3 /\ TriList(ds, <<<<r>>>>)
    \/ \E ds \in {DefaultDrawState, InsideOne}, r \in Regions :
          \E tex \in {"texA"} \cup InvalidTextures :
              ops < 3 /\ TriListUv(ds, tex, <<<<r>>>>)
    \/ \E color \in Colors : ops < 3 /\ ClearColor(color)
    \/ \E value \in {0, STENCIL_MAX} : ops < 3 /\ ClearStencil(value)
    \/ Draw

SpecStencil == Init /\ [][NextStencil]_vars

----------------------------------------------------------------------------
(* What the properties read off a state.                                   *)

IsDraw(p) == p.draw # None
IsVertex(x) == x.kind \in Kinds

\* The vertices a draw call covers: draw(0..len) over the vertex buffer.
DrawVertices(p) == SubSeq(p.vertex_buffer, 1, p.draw[1])

\* The draw calls and clears of a command encoder as one sequence of
\* vertices and clear marks, in the order the GPU executes them.
RECURSIVE Recorded(_)
Recorded(ps) ==
    IF ps = <<>> THEN <<>>
    ELSE LET p == Head(ps)
             item == IF IsDraw(p) THEN DrawVertices(p)
                     ELSE IF p.color_load # Load
                          THEN <<ClearColorMark(p.color_load[2])>>
                          ELSE <<ClearStencilMark(p.stencil_load[2])>>
         IN item \o Recorded(Tail(ps))

\* The vertices and clear marks of the frame in progress (or just ended).
Own(items) == SelectSeq(items, LAMBDA x : x.frame = frame)
Vertices(items) == SelectSeq(items, IsVertex)

DrawCalls == {i \in 1..Len(passes) : IsDraw(passes[i])}

\* The settings a draw call must carry for a vertex submitted with ds.
PipelineFor(kind, ds) ==
    stencil_blend(IF kind = "colored" THEN colored_render_pipelines
                  ELSE textured_render_pipelines, ds.stencil, ds.blend)[1]
ReferenceFor(ds) ==
    IF ds.stencil # None /\ ds.stencil[1][1] \in {"Clip", "Inside", "Outside"}
    THEN Some(ds.stencil[1][2]) ELSE None
ScissorFor(ds) ==
    IF ds.scissor = None THEN <<0, 0, width, height>> ELSE ds.scissor[1]

----------------------------------------------------------------------------
(* What the recorded passes do to the attachments when the command buffer  *)
(* is executed: the render pass of wgpu as the code configures it.  The    *)
(* color of a pixel is kept as the list of writes since the last clear.    *)

\* Both masks the pipelines use are all ones or all zeros.
Masked(x, mask) == IF mask = 0 THEN 0 ELSE x

\* wgpu::CompareFunction, as far as the pipelines use it.
Compare(f, reference, value) ==
    CASE f = "Never" -> FALSE
      [] f = "Always" -> TRUE
      [] f = "Equal" -> reference = value
      [] f = "NotEqual" -> reference # value

\* wgpu::StencilOperation, as far as the pipelines use it.
StencilOp(op, reference, value) ==
    CASE op = "Keep" -> value
      [] op = "Replace" -> reference
      [] op = "IncrementClamp" -> Min(value + 1, STENCIL_MAX)
      [] op = "IncrementWrap" -> (value + 1) % (STENCIL_MAX + 1)

\* The color a clear leaves in a pixel, and the write of one fragment.
Cleared(color) == <<[blend |-> <<"clear">>, src |-> color]>>
Written(pipeline) == [blend |-> pipeline.blend, src |-> "fragment"]

\* The target before the first pass of a frame: the stencil texture that
\* WgpuGraphics::new created, zero-initialised, and whatever the output
\* view holds.
NewTarget ==
    [px \in (0..width - 1) \X (0..height - 1) |-> [color |-> <<>>, stencil |-> 0]]

InRect(px, rect) ==
    /\ rect[1] <= px[1] /\ px[1] < rect[1] + rect[3]
    /\ rect[2] <= px[2] /\ px[2] < rect[2] + rect[4]

\* One fragment of a draw call of pass p at a pixel holding at: the stencil
\* test of the face, the stencil operation it selects under the write mask,
\* the depth test, the color write.
Fragment(at, p, face) ==
    LET st == p.pipeline[1].stencil
        f == IF face = "front" THEN st.front ELSE st.back
        reference == IF p.stencil_ref = None THEN 0 ELSE p.stencil_ref[1]
        pass == Compare(f.compare, Masked(reference, st.read_mask),
                        Masked(at.stencil, st.read_mask))
        depth == Compare(p.pipeline[1].depth_compare, 0, 0)
        op == IF ~pass THEN f.fail_op
              ELSE IF ~depth THEN f.depth_fail_op ELSE f.pass_op
    IN [color |-> IF pass /\ depth /\ p.pipeline[1].write_mask = "ALL"
                  THEN Append(at.color, Written(p.pipeline[1])) ELSE at.color,
        stencil |-> IF st.write_mask = 0 THEN at.stencil
                    ELSE StencilOp(op, reference, at.stencil)]

\* The triangles of a draw call, in order: each touches the pixels it
\* covers inside the scissor rectangle.
RECURSIVE Rasterize(_, _, _, _)
Rasterize(target, p, vs, face) ==
    IF vs = <<>> THEN target
    ELSE Rasterize([px \in DOMAIN target |->
                       IF px \in Head(vs).position /\ InRect(px, p.scissor[1])
                       THEN Fragment(target[px], p, face) ELSE target[px]],
                   p, Tail(vs), face)

\* One render pass: the load operations, then its draw call if it has one.
ExecutePass(target, p, face) ==
    LET loaded == [px \in DOMAIN target |->
                      [color |-> IF p.color_load[1] = "Load" THEN target[px].color
                                 ELSE Cleared(p.color_load[2]),
                       stencil |-> IF p.stencil_load[1] = "Load" THEN target[px].stencil
                                   ELSE p.stencil_load[2]]]
    IN IF IsDraw(p) THEN Rasterize(loaded, p, DrawVertices(p), face) ELSE loaded

\* The target after the first k recorded passes.
RECURSIVE Executed(_, _)
Executed(k, face) ==
    IF k = 0 THEN NewTarget ELSE ExecutePass(Executed(k - 1, face), passes[k], face)

Faces == {"front", "back"}

----------------------------------------------------------------------------
(* Properties.                                                             *)

\* C1: paint order: when draw() has returned, the vertices of the emitted
\* draw calls, concatenated in emission order, are exactly the vertices
\* submitted in the frame, in submission order.
C1_PaintOrder ==
    pc = "finished" => Vertices(Recorded(passes)) = Vertices(submitted)

\* The same for the frame's own vertices alone: what the batching does
\* with them when vertices of a dropped frame are (or are not) around.
PaintOrderOwn ==
    pc = "finished" => Own(Vertices(Recorded(passes))) = Vertices(submitted)

\* C2: every draw call carries the pipeline, the scissor rectangle and the
\* stencil reference of the DrawState each of its vertices was submitted
\* with (so no draw call mixes vertices of two DrawStates).
C2_DrawStateOfVertices ==
    \A i \in DrawCalls :
        LET p == passes[i]
            vs == DrawVertices(p)
        IN \A k \in 1..Len(vs) :
              /\ p.pipeline = Some(PipelineFor(vs[k].kind, vs[k].ds))
              /\ p.scissor = Some(ScissorFor(vs[k].ds))
              /\ p.stencil_ref = ReferenceFor(vs[k].ds)

\* C3: every textured draw call binds the bind group of the texture each
\* of its vertices was submitted with.
C3_TextureOfVertices ==
    \A i \in DrawCalls :
        passes[i].kind = "textured" =>
            \A k \in 1..Len(DrawVertices(passes[i])) :
                passes[i].bind_group = DrawVertices(passes[i])[k].texture

\* A draw call over exactly the vertices data, with the settings of the
\* DrawState and the texture they were submitted with.
FlushedAs(p, data) ==
    /\ IsDraw(p)
    /\ DrawVertices(p) = data
    /\ \A k \in 1..Len(data) :
          /\ p.pipeline = Some(PipelineFor(data[k].kind, data[k].ds))
          /\ p.scissor = Some(ScissorFor(data[k].ds))
          /\ p.stencil_ref = ReferenceFor(data[k].ds)
          /\ p.bind_group = data[k].texture

ColoredSubmitStep ==
    \E ds \in DrawStates, chunks \in ShortLists :
        TriList(ds, chunks) \/ TriListC(ds, chunks)

TexturedSubmitStep ==
    \E ds \in DrawStates, tex \in Textures, chunks \in ShortLists :
        TriListUv(ds, tex, chunks) \/ TriListUvC(ds, tex, chunks)

\* C4: kind interleaving: a colored submit that finds the textured buffer
\* non-empty and returns has first recorded a draw call over the textured
\* buffer with that batch's own DrawState and texture; symmetrically for a
\* textured submit and the colored buffer.
C4_KindInterleaving ==
    [][ /\ (ColoredSubmitStep /\ textured_data # <<>> /\ pc' = "frame") =>
             /\ Len(passes') > Len(passes)
             /\ FlushedAs(passes'[Len(passes) + 1], textured_data)
        /\ (TexturedSubmitStep /\ colored_data # <<>> /\ pc' = "frame") =>
             /\ Len(passes') > Len(passes)
             /\ FlushedAs(passes'[Len(passes) + 1], colored_data) ]_vars

\* C5 as stated: no draw call holds more than SOFT_BUFFER_LIMIT vertices,
\* whatever the chunks.
C5_CapacityBound ==
    \A i \in DrawCalls : Len(DrawVertices(passes[i])) <= SOFT_BUFFER_LIMIT

\* The vertices of q all arrived in chunks of at most n vertices.
ChunksAtMost(q, n) == \A k \in 1..Len(q) : q[k].chunk <= n

\* C5 as amended: a draw call, and a pending buffer, whose vertices all
\* arrived in chunks of at most BUFFER_SIZE + 1 vertices holds at most
\* SOFT_BUFFER_LIMIT vertices.
C5_CapacityBoundShortChunks ==
    /\ \A i \in DrawCalls :
          ChunksAtMost(DrawVertices(passes[i]), BUFFER_SIZE + 1)
              => Len(DrawVertices(passes[i])) <= SOFT_BUFFER_LIMIT
    /\ ChunksAtMost(colored_data, BUFFER_SIZE + 1)
          => Len(colored_data) <= SOFT_BUFFER_LIMIT
    /\ ChunksAtMost(textured_data, BUFFER_SIZE + 1)
          => Len(textured_data) <= SOFT_BUFFER_LIMIT

\* A callback found its buffer at the flush threshold and flushed: a draw
\* call of short chunks is followed by more vertices of the same submit
\* call, now pending.
C5_Witness ==
    /\ pc = "frame"
    /\ \E i \in DrawCalls :
          LET vs == DrawVertices(passes[i]) IN
          /\ Len(vs) + BUFFER_SIZE >= SOFT_BUFFER_LIMIT
          /\ ChunksAtMost(vs, BUFFER_SIZE + 1)
          /\ \E k \in 1..Len(submitted) - 1 :
                /\ submitted[k] = vs[Len(vs)]
                /\ submitted[k + 1] \in {colored_data[j] : j \in 1..Len(colored_data)}
                                        \cup {textured_data[j] : j \in 1..Len(textured_data)}
                /\ submitted[k + 1].chunk = submitted[k].chunk
                /\ submitted[k + 1].chunk > 0

ClearStep ==
    \/ \E color \in Colors : ClearColor(color)
    \/ \E value \in ClearVals : ClearStencil(value)

\* C6: clear ordering: the draw calls and clears recorded so far, followed
\* by what is pending, are the frame's submissions and clears in call
\* order; and a clear that returns has recorded a draw call over every
\* vertex that was pending, then its own pass, leaving nothing pending.
C6_ClearOrdering ==
    /\ [](pc \in {"frame", "finished"} =>
            Own(Recorded(passes) \o colored_data \o textured_data) = submitted)
    /\ [][(ClearStep /\ pc' = "frame") =>
            /\ colored_data' = <<>> /\ textured_data' = <<>>
            /\ Recorded(passes') =
                  Recorded(passes) \o colored_data \o textured_data
                      \o <<submitted'[Len(submitted')]>> ]_vars

\* A finished frame that drew, cleared and drew again.
C6_Witness ==
    /\ pc = "finished"
    /\ \E i, j, k \in 1..Len(passes) :
          /\ i < j /\ j < k
          /\ IsDraw(passes[i]) /\ ~IsDraw(passes[j]) /\ IsDraw(passes[k])

\* Where in the draw calls of the encoder the vertex v occurs.
Occurrences(v) ==
    UNION {{<<i, j>> : j \in {n \in 1..Len(DrawVertices(passes[i])) :
                                 DrawVertices(passes[i])[n] = v}}
           : i \in DrawCalls}

\* C7: once draw() has returned both buffers are empty and every vertex
\* submitted in the frame is in exactly one draw call; a frame created
\* after a finished frame starts with both buffers empty.
C7_DrawFlushesAll ==
    /\ [](pc = "finished" =>
            /\ colored_data = <<>> /\ textured_data = <<>>
            /\ \A k \in 1..Len(submitted) :
                  IsVertex(submitted[k]) =>
                      Cardinality(Occurrences(submitted[k])) = 1)
    /\ [][(pc = "finished" /\ pc' = "frame") =>
            colored_data' = <<>> /\ textured_data' = <<>>]_vars

\* A second frame, after a finished one, finished with vertices of both
\* kinds drawn.
C7_Witness ==
    /\ pc = "finished" /\ frame = 2 /\ ~abandoned
    /\ \E i, j \in DrawCalls :
          passes[i].kind = "colored" /\ passes[j].kind = "textured"

\* C8: a frame dropped without draw() has its batch discarded: the next
\* frame starts with both buffers empty, so no vertex of another frame is
\* pending in it or recorded in its draw calls.
C8_AbandonedBatchDiscarded ==
    pc = "frame" =>
        LET all == colored_data \o textured_data \o Vertices(Recorded(passes))
        IN \A k \in 1..Len(all) : all[k].frame = frame

\* C9: a draw call issued with a DrawState without scissor has the scissor
\* rectangle [0, 0, width, height] of the frame's surface configuration;
\* one issued with Some(rect) has exactly rect.
C9_ScissorDefault ==
    \A i \in DrawCalls :
        LET p == passes[i] IN
        /\ p.state[1].scissor = None => p.scissor = Some(<<0, 0, width, height>>)
        /\ p.state[1].scissor # None => p.scissor = p.state[1].scissor

\* Draw calls with and without a scissor in a frame that is not square.
C9_Witness ==
    /\ width # height
    /\ \E i, j \in DrawCalls :
          /\ passes[i].state[1].scissor = None
          /\ passes[j].state[1].scissor # None

StencilClass(stencil) == IF stencil = None THEN "None" ELSE stencil[1][1]

Lookup(kind, stencil, b) ==
    stencil_blend(IF kind = "colored" THEN colored_render_pipelines
                  ELSE textured_render_pipelines, stencil, b)[1]

TableObjects(t) == UNION {{t[s][b] : b \in DOMAIN t[s]} : s \in DOMAIN t}

\* C10: the two tables hold exactly 60 pipeline objects, each from its own
\* creation call; a lookup depends only on (stencil class, blend, kind),
\* and lookups with distinct keys give distinct objects.
C10_SixtyPipelines ==
    LET objects == TableObjects(colored_render_pipelines)
                       \cup TableObjects(textured_render_pipelines)
        found == {Lookup(k, st, b) : k \in Kinds, st \in Stencils, b \in Blends}
    IN /\ Cardinality(objects) = 60
       /\ {o.id : o \in objects} = 1..60
       /\ found = objects
       /\ \A k \in Kinds, b \in Blends : \A st1, st2 \in Stencils :
             StencilClass(st1) = StencilClass(st2)
                 => Lookup(k, st1, b) = Lookup(k, st2, b)

\* Two draw calls made with one pipeline object and a third with another.
C10_Witness ==
    \E i, j, k \in DrawCalls :
        /\ i < j
        /\ passes[i].pipeline = passes[j].pipeline
        /\ passes[k].pipeline # passes[i].pipeline

\* C11: pipelines are immutable after construction: no step of any frame
\* (beginning it, a submit, a clear, a flush, finishing or dropping it)
\* changes either pipeline table; they stay as Wgpu2d::new built them.
C11_PipelinesImmutable ==
    /\ [][/\ colored_render_pipelines' = colored_render_pipelines
          /\ textured_render_pipelines' = textured_render_pipelines]_vars
    /\ [](/\ colored_render_pipelines = PsoStencilNew("colored", 0)
          /\ textured_render_pipelines = PsoStencilNew("textured", 30))

\* A second frame finished, with draw calls of both kinds and a clear.
C11_Witness ==
    /\ pc = "finished" /\ frame = 2
    /\ \E i, j, k \in 1..Len(passes) :
          /\ passes[i].kind = "colored"
          /\ passes[j].kind = "textured"
          /\ passes[k].kind = "clear"

\* The DrawStates d and e ask for the same blend and the same stencil class.
SameKey(d, e) ==
    d.blend = e.blend /\ StencilClass(d.stencil) = StencilClass(e.stencil)

\* C12: pipeline selection depends only on blend, stencil class and kind:
\* two draw calls of one kind use the same pipeline object exactly if their
\* DrawStates agree in blend and stencil class (whatever the scissor and
\* the reference value), and draw calls of different kinds never do.
C12_PipelineSelection ==
    \A i, j \in DrawCalls :
        LET p == passes[i]
            q == passes[j]
        IN (p.pipeline = q.pipeline)
              <=> (p.kind = q.kind /\ SameKey(p.state[1], q.state[1]))

\* Two draw calls that differ in the reference value or the scissor alone,
\* and a third of another blend or stencil class.
C12_Witness ==
    \E i, j, k \in DrawCalls :
        LET d == passes[i].state[1]
            e == passes[j].state[1]
        IN /\ passes[i].kind = passes[j].kind /\ passes[j].kind = passes[k].kind
           /\ d # e /\ SameKey(d, e)
           /\ (d.scissor # e.scissor \/ d.stencil # e.stencil)
           /\ ~SameKey(d, passes[k].state[1])

\* The pixels whose color the k-th recorded pass changes.
Changed(k, face) ==
    {px \in DOMAIN NewTarget :
        Executed(k, face)[px].color # Executed(k - 1, face)[px].color}

\* The pixels a triangle of vertex v can touch: those it covers inside the
\* scissor rectangle of its DrawState.
Stamped(v) == {px \in v.position : InRect(px, ScissorFor(v.ds))}

\* The frame's calls were submits with exactly these stencil settings.
SubmittedStencils(stencils) ==
    /\ Len(submitted) = Len(stencils)
    /\ \A k \in 1..Len(stencils) :
          IsVertex(submitted[k]) /\ submitted[k].ds.stencil = stencils[k]

\* C13: nested clipping: in a frame (stencil attachment of zeros) that
\* stamps two regions with Increment and then draws with Inside(2), the
\* last draw call changes color exactly at the pixels it covers inside
\* both stamped regions; in a frame that stamps one region and then draws
\* with Inside(1), exactly at the pixels it covers inside that region.
C13_NestedClipping ==
    pc = "finished" =>
        \A face \in Faces :
            LET n == Len(passes) IN
            /\ SubmittedStencils(<<Some(<<"Increment">>), Some(<<"Increment">>),
                                   Some(<<"Inside", 2>>)>>)
                  => /\ DrawVertices(passes[n]) = <<submitted[3]>>
                     /\ Changed(n, face) = Stamped(submitted[3])
                           \cap Stamped(submitted[1]) \cap Stamped(submitted[2])
            /\ SubmittedStencils(<<Some(<<"Increment">>), Some(<<"Inside", 1>>)>>)
                  => /\ DrawVertices(passes[n]) = <<submitted[2]>>
                     /\ Changed(n, face) = Stamped(submitted[2])
                           \cap Stamped(submitted[1])

\* R1 and R2 stamped, then a triangle over R2 drawn with Inside(2): the
\* overlap is drawn, the rest of R2 is not.
C13_Witness ==
    /\ pc = "finished"
    /\ SubmittedStencils(<<Some(<<"Increment">>), Some(<<"Increment">>),
                           Some(<<"Inside", 2>>)>>)
    /\ Stamped(submitted[1]) = R1 /\ Stamped(submitted[2]) = R2
    /\ submitted[3].position = R2
    /\ Changed(Len(passes), "front") = R1 \cap R2

\* The attachments after all recorded passes, and before the last of them.
Target(face) == Executed(Len(passes), face)
TargetBeforeLast(face) == Executed(Len(passes) - 1, face)

\* The passes without a draw call.
Clears(ps) == SelectSeq(ps, LAMBDA p : ~IsDraw(p))

\* C14: a clear_color(color) that returns has recorded exactly one pass
\* besides the flushes, the last one, with color load-op Clear(color) and
\* stencil load-op Load; after that pass every pixel of the color target is
\* color and every stencil value is what it was before the pass.
C14_ClearColorPass ==
    [][\A color \in Colors :
          (ClearColor(color) /\ pc' = "frame") =>
              LET p == passes'[Len(passes')] IN
              /\ Len(Clears(passes')) = Len(Clears(passes)) + 1
              /\ ~IsDraw(p)
              /\ p.color_load = Clear(color)
              /\ p.stencil_load = Load
              /\ \A face \in Faces : \A px \in DOMAIN NewTarget :
                    /\ Target(face)'[px].color = Cleared(color)
                    /\ Target(face)'[px].stencil = TargetBeforeLast(face)'[px].stencil
      ]_vars

\* A clear_color recorded over a target with a drawn pixel and a stamped
\* stencil value.
C14_Witness ==
    /\ Len(passes) > 1
    /\ passes[Len(passes)].color_load # Load
    /\ \E px \in DOMAIN NewTarget :
          TargetBeforeLast("front")[px].stencil > 0
    /\ \E px \in DOMAIN NewTarget :
          TargetBeforeLast("front")[px].color # <<>>

\* C15: a clear_stencil(value) that returns has recorded exactly one pass
\* besides the flushes, the last one, with stencil load-op Clear(value) and
\* color load-op Load; after that pass every stencil value is value and
\* every pixel of the color target is what it was before the pass.
C15_ClearStencilPass ==
    [][\A value \in {0, STENCIL_MAX} :
          (ClearStencil(value) /\ pc' = "frame") =>
              LET p == passes'[Len(passes')] IN
              /\ Len(Clears(passes')) = Len(Clears(passes)) + 1
              /\ ~IsDraw(p)
              /\ p.stencil_load = Clear(value)
              /\ p.color_load = Load
              /\ \A face \in Faces : \A px \in DOMAIN NewTarget :
                    /\ Target(face)'[px].stencil = value
                    /\ Target(face)'[px].color = TargetBeforeLast(face)'[px].color
      ]_vars

\* A clear_stencil recorded over a target with a drawn pixel and a
\* stencil value other than the one it clears to.
C15_Witness ==
    /\ Len(passes) > 1
    /\ passes[Len(passes)].stencil_load # Load
    /\ \E px \in DOMAIN NewTarget :
          TargetBeforeLast("front")[px].stencil # passes[Len(passes)].stencil_load[2]
    /\ \E px \in DOMAIN NewTarget :
          TargetBeforeLast("front")[px].color # <<>>

\* C16: a textured submit given an invalid texture reports the error at
\* the submit call itself (the call does not return normally) and appends
\* no vertex of that texture to the textured batch.
C16_InvalidTextureAtSubmit ==
    [][\A tex \in InvalidTextures :
          (\E ds \in {DefaultDrawState, InsideOne}, r \in Regions :
              TriListUv(ds, tex, <<<<r>>>>))
          => /\ pc' = "panicked"
             /\ \A k \in 1..Len(textured_data') :
                   textured_data'[k].texture # Some(tex)]_vars

\* The submit call about to run follows, in this frame, a submit call of
\* the same kind, DrawState and texture whose last vertex is still pending
\* in data.
FollowsSameBatch(data, ds, tex) ==
    /\ data # <<>> /\ submitted # <<>>
    /\ data[Len(data)] = submitted[Len(submitted)]
    /\ data[Len(data)].ds = ds /\ draw_state = ds
    /\ data[Len(data)].texture = tex /\ (tex # None => texture = tex)

\* The submit call merged its vertices vs into the pending batch: no pass
\* was recorded and the batch is the old one followed by vs.
Merged(data, vs, dataAfter) == passes' = passes /\ dataAfter = data \o vs

\* The vertices of a chunk list before its last chunk.
BeforeLastChunk(chunks) ==
    IF chunks = <<>> THEN 0
    ELSE Len(AllVertices(SubSeq(chunks, 1, Len(chunks) - 1), 1, "colored",
                         DefaultDrawState, None))

\* Merging under the capacity condition fits(len, chunks), for the four
\* submit calls.
MergesWhen(fits(_, _)) ==
    /\ \A ds \in DrawStates, chunks \in ShortLists \cup ChunkLists :
          /\ pc' = "frame"
          /\ FollowsSameBatch(colored_data, ds, None)
          /\ fits(Len(colored_data), chunks)
          /\ (TriList(ds, chunks) \/ TriListC(ds, chunks))
          => Merged(colored_data,
                    AllVertices(chunks, Len(submitted) + 1, "colored", ds, None),
                    colored_data')
    /\ \A ds \in DrawStates, tex \in Textures, chunks \in ShortLists \cup ChunkLists :
          /\ pc' = "frame"
          /\ FollowsSameBatch(textured_data, ds, Some(tex))
          /\ fits(Len(textured_data), chunks)
          /\ (TriListUv(ds, tex, chunks) \/ TriListUvC(ds, tex, chunks))
          => Merged(textured_data,
                    AllVertices(chunks, Len(submitted) + 1, "textured", ds, Some(tex)),
                    textured_data')

FlushedOnce(g, data) ==
    /\ ~g.panic
    /\ Len(g.passes) = Len(passes) + 1
    /\ SubSeq(g.passes, 1, Len(passes)) = passes
    /\ LET p == g.passes[Len(g.passes)] IN
       /\ p.color_load = Load /\ p.stencil_load = Load
       /\ p.draw = Some(Len(data))
       /\ p.vertex_buffer = data
    /\ g.draw_state = draw_state
    /\ g.texture = texture

\* C18: in every state of a frame, a flush of one kind that returns records
\* exactly one render pass, both load-ops Load, with one draw call over all
\* vertices of that kind's buffer, empties that buffer and leaves the other
\* buffer, the current DrawState and the current texture as they are.
C18_FlushIsOnePass ==
    pc = "frame" =>
        /\ colored_data # <<>> =>
              LET g == command_colored(G) IN
              /\ FlushedOnce(g, colored_data)
              /\ g.colored_data = <<>>
              /\ g.textured_data = textured_data
        /\ (textured_data # <<>> /\ texture # None) =>
              LET g == command_textured(G) IN
              /\ FlushedOnce(g, textured_data)
              /\ g.textured_data = <<>>
              /\ g.colored_data = colored_data

\* A frame that has recorded a flush of each kind and has a textured batch
\* pending under a DrawState other than the default.
C18_Witness ==
    /\ pc = "frame"
    /\ textured_data # <<>> /\ texture # None
    /\ draw_state # DefaultDrawState
    /\ \E i, j \in DrawCalls :
          passes[i].kind = "colored" /\ passes[j].kind = "textured"

\* Both faces of the stencil state st compare with cmp and apply op on
\* failure, under the masks mask.
Configured(st, cmp, op, mask) ==
    /\ st.front.compare = cmp /\ st.back.compare = cmp
    /\ st.front.fail_op = op /\ st.back.fail_op = op
    /\ st.read_mask = mask /\ st.write_mask = mask

\* The stencil configuration of a stencil class.
OfClass(st, class) ==
    CASE class \in {"None", "none"} -> Configured(st, "Always", "Keep", 0)
      [] class \in {"Clip", "clip"} -> Configured(st, "Never", "Replace", 255)
      [] class \in {"Inside", "inside"} -> Configured(st, "Equal", "Keep", 255)
      [] class \in {"Outside", "outside"} -> Configured(st, "NotEqual", "Keep", 255)
      [] class \in {"Increment", "increment"} ->
            Configured(st, "Never", "IncrementClamp", 255)

\* The blend configuration of a blend mode.
OfBlend(config, b) ==
    CASE b = None -> config = None
      [] b = Some("Alpha") -> config = Some("ALPHA_BLENDING")
      [] b = Some("Add") -> config = Some("blend_add")
      [] b = Some("Lighter") -> config = Some("blend_lighter")
      [] b = Some("Multiply") -> config = Some("blend_multiply")
      [] b = Some("Invert") -> config = Some("blend_invert")

\* The blend mode a field of PsoBlend is for.
FieldBlend(col) ==
    CASE col = "none" -> None
      [] col = "alpha" -> Some("Alpha")
      [] col = "add" -> Some("Add")
      [] col = "lighter" -> Some("Lighter")
      [] col = "multiply" -> Some("Multiply")
      [] col = "invert" -> Some("Invert")

\* C19: the lookup is total and correctly wired: for every kind, every
\* Option<Stencil> and every Option<Blend>, stencil_blend yields a pipeline
\* of the kind's table built with the stencil configuration of the
\* stencil's class and the blend configuration of the blend; and every
\* entry of both tables is built with the configuration of its own row and
\* column.
C19_LookupWiring ==
    /\ \A k \in Kinds, st \in Stencils, b \in Blends :
          LET o == Lookup(k, st, b) IN
          /\ o.kind = k
          /\ OfClass(o.stencil, StencilClass(st))
          /\ OfBlend(o.blend, b)
    /\ \A t \in {colored_render_pipelines, textured_render_pipelines} :
          \A row \in DOMAIN t : \A col \in DOMAIN t[row] :
             /\ OfClass(t[row][col].stencil, row)
             /\ OfBlend(t[row][col].blend, FieldBlend(col))

\* Draw calls made through the lookup: one with the clip pipeline, one
\* with a pipeline that ignores the stencil.
C19_Witness ==
    \E i, j \in DrawCalls :
        /\ StencilClass(passes[i].state[1].stencil) = "Clip"
        /\ passes[i].pipeline[1].stencil.front.compare = "Never"
        /\ passes[j].state[1].stencil = None
        /\ passes[j].pipeline[1].stencil.front.compare = "Always"

\* The number of triangles of the draw call of pass p that cover pixel px
\* inside the scissor rectangle of the pass.
Covering(p, px) ==
    Cardinality({k \in 1..Len(DrawVertices(p)) :
                    px \in DrawVertices(p)[k].position /\ InRect(px, p.scissor[1])})

\* What draw calls with a Clip or Increment DrawState do: no color changes,
\* Clip(v) leaves v at every covered pixel inside the scissor rectangle,
\* Increment leaves raised(before, n) at a pixel covered by n triangles.
StampingDraws(raised(_, _)) ==
    \A face \in Faces : \A k \in DrawCalls :
        LET p == passes[k]
            st == p.state[1].stencil
            before == Executed(k - 1, face)
            after == Executed(k, face)
        IN StencilClass(st) \in {"Clip", "Increment"} =>
              /\ Changed(k, face) = {}
              /\ \A px \in DOMAIN NewTarget :
                    Covering(p, px) > 0 =>
                        after[px].stencil =
                            IF StencilClass(st) = "Clip" THEN st[1][2]
                            ELSE raised(before[px].stencil, Covering(p, px))

\* C20 as stated: a draw call with Clip(v) or Increment changes no pixel of
\* the color target; Clip(v) sets the stencil value of every covered pixel
\* inside the scissor rectangle to v; Increment raises it by one.
C20_StampingDraws == StampingDraws(LAMBDA value, n : value + 1)

\* C20 as amended: Increment raises the stencil value by one for each
\* triangle of the draw call that covers the pixel, up to 255.
C20_StampingDrawsClamped ==
    StampingDraws(LAMBDA value, n : Min(value + n, STENCIL_MAX))

\* An Increment draw call over a pixel that holds 255, and a Clip draw call.
C20_Witness ==
    \E i, j \in DrawCalls :
        /\ StencilClass(passes[i].state[1].stencil) = "Increment"
        /\ \E px \in DOMAIN NewTarget :
              /\ Covering(passes[i], px) > 0
              /\ Executed(i - 1, "front")[px].stencil = STENCIL_MAX
        /\ StencilClass(passes[j].state[1].stencil) = "Clip"

\* C21: a draw call with stencil Inside(v) changes color exactly at the
\* covered pixels (inside the scissor rectangle) whose stencil value is v,
\* one with Outside(v) exactly at those whose stencil value differs from v,
\* one with no stencil at all of them; none of the three changes a stencil
\* value.
C21_TestingDraws ==
    \A face \in Faces : \A k \in DrawCalls :
        LET p == passes[k]
            st == p.state[1].stencil
            before == Executed(k - 1, face)
            after == Executed(k, face)
            covered == {px \in DOMAIN NewTarget : Covering(p, px) > 0}
        IN StencilClass(st) \in {"Inside", "Outside", "None"} =>
              /\ Changed(k, face) =
                    CASE StencilClass(st) = "Inside" ->
                            {px \in covered : before[px].stencil = st[1][2]}
                      [] StencilClass(st) = "Outside" ->
                            {px \in covered : before[px].stencil # st[1][2]}
                      [] StencilClass(st) = "None" -> covered
              /\ \A px \in DOMAIN NewTarget : after[px].stencil = before[px].stencil

\* An Outside(v) draw call that covers a pixel at v and a pixel not at v,
\* and an Inside draw call.
C21_Witness ==
    \E i, j \in DrawCalls :
        /\ StencilClass(passes[i].state[1].stencil) = "Outside"
        /\ \E px, py \in DOMAIN NewTarget :
              /\ Covering(passes[i], px) > 0 /\ Covering(passes[i], py) > 0
              /\ Executed(i - 1, "front")[px].stencil = passes[i].state[1].stencil[1][2]
              /\ Executed(i - 1, "front")[py].stencil # passes[i].state[1].stencil[1][2]
        /\ StencilClass(passes[j].state[1].stencil) = "Inside"

\* The frame's calls were Increment submits alone, after at most one
\* clear_stencil that came first.
OnlyIncrements ==
    /\ submitted # <<>>
    /\ \A k \in 1..Len(submitted) :
          \/ IsVertex(submitted[k])
             /\ StencilClass(submitted[k].ds.stencil) = "Increment"
          \/ k = 1 /\ submitted[k].kind = "clear_stencil"

\* The stencil value such a frame starts stamping from: 0 in the frame's
\* new attachment, or the value of the clear.
StartValue == IF IsVertex(submitted[1]) THEN 0 ELSE submitted[1].value

\* The number of Increment stamps of the frame that touch pixel px.
Stamps(px) ==
    Cardinality({k \in 1..Len(submitted) :
                    IsVertex(submitted[k]) /\ px \in Stamped(submitted[k])})

\* C22: Increment saturates: after a frame that only stamps with Increment,
\* the stencil value of a pixel is its starting value (0, or what a
\* clear_stencil set) plus the number of stamps that touched it, or 255 if
\* that is more: N stamps from 0 leave min(N, 255), and a stamp at 255
\* leaves 255.
C22_IncrementSaturates ==
    (pc = "finished" /\ OnlyIncrements)
    => \A face \in Faces : \A px \in DOMAIN NewTarget :
          Target(face)[px].stencil = Min(StartValue + Stamps(px), STENCIL_MAX)

\* A pixel at 255 stamped twice: it stays at 255.
C22_Witness ==
    /\ pc = "finished" /\ OnlyIncrements
    /\ StartValue = STENCIL_MAX
    /\ \E px \in DOMAIN NewTarget :
          Stamps(px) = 2 /\ Target("front")[px].stencil = STENCIL_MAX

\* C23: a flush sets the stencil reference to v exactly when the stencil
\* mode of the DrawState it reads is Clip(v), Inside(v) or Outside(v); for
\* Increment and for an absent stencil it sets none.
C23_StencilReference ==
    \A k \in DrawCalls :
        LET st == passes[k].state[1].stencil IN
        /\ StencilClass(st) \in {"Clip", "Inside", "Outside"}
              => passes[k].stencil_ref = Some(st[1][2])
        /\ StencilClass(st) \in {"Increment", "None"}
              => passes[k].stencil_ref = None

\* Flushes with Outside(1), with Clip(2) and with Increment in one frame.
C23_Witness ==
    \E i, j, k \in DrawCalls :
        /\ passes[i].state[1].stencil = Some(<<"Outside", 1>>)
        /\ passes[i].stencil_ref = Some(1)
        /\ passes[j].state[1].stencil = Some(<<"Clip", 2>>)
        /\ passes[j].stencil_ref = Some(2)
        /\ StencilClass(passes[k].state[1].stencil) = "Increment"
        /\ passes[k].stencil_ref = None

\* The positions of a call in the calls of a pass.
At(p, call) == {i \in 1..Len(p.calls) : p.calls[i] = call}

\* C24: in every pass that contains a draw call, the blend constant is set,
\* to white, before the draw call: so it is before every draw call with an
\* Invert pipeline.
C24_BlendConstantBeforeDraw ==
    \A k \in 1..Len(passes) :
        \A d \in At(passes[k], "draw") :
            /\ passes[k].blend_constant = Some(WHITE)
            /\ \E c \in At(passes[k], "set_blend_constant") : c < d

\* A colored and a textured draw call in one frame, the colored one with an
\* Invert pipeline.
C24_Witness ==
    \E i, j \in DrawCalls :
        /\ passes[i].kind = "colored" /\ passes[j].kind = "textured"
        /\ passes[i].pipeline[1].blend = Some("blend_invert")
        /\ At(passes[i], "draw") # {} /\ At(passes[j], "draw") # {}

\* C25: WgpuGraphics::new creates the frame's stencil attachment: a texture
\* the device had not created before, of the size of the output extent; and
\* every pass recorded in a frame attaches the stencil view of that frame.
\* So no pass of a frame attaches a texture that a pass of an earlier frame
\* attached, and none reads what an earlier frame stamped.
C25_FrameStencil ==
    /\ [](\A k \in 1..Len(passes) : passes[k].stencil_attachment = stencil_view)
    /\ [][(pc' = "frame" /\ pc # "frame")
            => /\ stencil_view'.id > textures_created
               /\ stencil_view'.size = <<width', height'>>]_vars

\* A second frame, 2 x 2, with a clear and a draw call recorded on the
\* second stencil texture the device created, itself 2 x 2.
C25_Witness ==
    /\ frame = 2 /\ width = 2 /\ height = 2
    /\ stencil_view = [id |-> 2, size |-> <<2, 2>>]
    /\ \E i \in DrawCalls : passes[i].stencil_attachment.id = 2
    /\ \E i \in 1..Len(passes) :
          ~IsDraw(passes[i]) /\ passes[i].stencil_attachment.id = 2

\* C26: at most one frame is in flight: a frame begins only when no
\* WgpuGraphics exists; a submit call or a clear happens only in the frame
\* that is in flight and leaves it in flight; and the frame is finished by
\* draw() from within that same frame, whose passes are the ones recorded
\* since it began.
C26_OneFrameInFlight ==
    [][/\ frame' # frame
            => pc \in NoFrame /\ pc' = "frame" /\ frame' = frame + 1 /\ passes' = <<>>
       /\ ops' # ops
            => pc = "frame" /\ pc' \in {"frame", "panicked"} /\ frame' = frame
       /\ (pc' = "finished" /\ pc # "finished")
            => /\ pc = "frame" /\ frame' = frame
               /\ SubSeq(passes', 1, Len(passes)) = passes]_vars

\* Two frames each run from begin to finish, the second with calls of its
\* own.
C26_Witness ==
    /\ frame = 2 /\ pc = "finished" /\ ~abandoned
    /\ submitted # <<>> /\ passes # <<>>
    /\ \A k \in 1..Len(submitted) : submitted[k].frame = 2

\* At most one of the two buffers holds vertices, between the calls of a
\* frame and between frames; and when a flush began, the buffer it did not
\* flush was empty.
OneBufferPending ==
    /\ colored_data = <<>> \/ textured_data = <<>>
    /\ \A k \in DrawCalls : passes[k].other_pending = 0

\* C27: at most one of the two buffers holds vertices, and the current
\* DrawState of the frame is the one its vertices were submitted with.
C27_OneBufferDescribed ==
    /\ OneBufferPending
    /\ pc = "frame" =>
          \A k \in 1..Len(colored_data \o textured_data) :
              (colored_data \o textured_data)[k].ds = draw_state

\* C28: as long as every frame has been finished with draw(), as the
\* frames of Wgpu2d::draw are, no call panics, and whenever textured_data
\* holds vertices the texture of the frame is Some: the unwrap of
\* command_textured succeeds.
C28_TexturedFlushNeverPanics ==
    ~abandoned =>
        /\ pc # "panicked"
        /\ (pc = "frame" /\ textured_data # <<>>) => texture # None

\* In a second frame, after a first that was finished, a textured batch
\* has been flushed and another is pending.
C28_Witness ==
    /\ ~abandoned /\ frame = 2 /\ pc = "frame"
    /\ textured_data # <<>> /\ texture # None
    /\ \E k \in DrawCalls : passes[k].kind = "textured"

\* C29: a buffer whose vertices all arrived in chunks of at most
\* BUFFER_SIZE vertices holds fewer than SOFT_BUFFER_LIMIT vertices, the
\* capacity Wgpu2d::new allocated: when pending between calls, and when it
\* was flushed (which is when it was longest).
C29_BelowCapacity ==
    /\ ChunksAtMost(colored_data, BUFFER_SIZE)
          => Len(colored_data) < SOFT_BUFFER_LIMIT
    /\ ChunksAtMost(textured_data, BUFFER_SIZE)
          => Len(textured_data) < SOFT_BUFFER_LIMIT
    /\ \A i \in DrawCalls :
          ChunksAtMost(passes[i].vertex_buffer, BUFFER_SIZE)
              => Len(passes[i].vertex_buffer) < SOFT_BUFFER_LIMIT

\* One submit call of full chunks: a callback found the buffer at the
\* threshold, flushed it, and vertices of later chunks are pending.
C29_Witness ==
    /\ pc = "frame" /\ ops = 1 /\ frame = 1
    /\ colored_data # <<>> /\ colored_data[1].chunk = BUFFER_SIZE
    /\ \E i \in DrawCalls :
          /\ Len(passes[i].vertex_buffer) + BUFFER_SIZE >= SOFT_BUFFER_LIMIT
          /\ ChunksAtMost(passes[i].vertex_buffer, BUFFER_SIZE)

\* Every recorded draw call draws the whole of a buffer that held at least
\* one vertex.
NoEmptyDrawCall ==
    \A i \in DrawCalls :
        passes[i].vertex_buffer # <<>>
        /\ passes[i].draw = Some(Len(passes[i].vertex_buffer))

\* C30: no draw call is empty, and a frame in which no vertex was submitted
\* and no clear was called has recorded no pass.
C30_NoEmptyDrawCall ==
    /\ NoEmptyDrawCall
    /\ (pc \in {"frame", "finished"} /\ submitted = <<>>) => passes = <<>>

\* C31: frames are independent.  What the operations of a frame read is
\* the record G, the extent and the pipeline tables; every operation is a
\* function of these and of its arguments.  As long as every frame has
\* been finished with draw(), a frame begins with G the same whatever came
\* before (no pass, both buffers empty, the default DrawState, no texture),
\* with the extent it was given and with the tables as Wgpu2d::new built
\* them; and no vertex of another frame is pending or recorded in it.
C31_FramesIndependent ==
    /\ [][(frame' # frame /\ ~abandoned)
            => /\ passes' = <<>> /\ colored_data' = <<>> /\ textured_data' = <<>>
               /\ draw_state' = DefaultDrawState /\ texture' = None
               /\ \E extent \in Extents : <<width', height'>> = extent]_vars
    /\ [](/\ colored_render_pipelines = PsoStencilNew("colored", 0)
          /\ textured_render_pipelines = PsoStencilNew("textured", 30))
    /\ [](~abandoned =>
            LET all == colored_data \o textured_data \o Vertices(Recorded(passes))
            IN pc = "frame" => \A k \in 1..Len(all) : all[k].frame = frame)

\* A second frame, begun after a first that made calls and was finished,
\* has recorded a draw call of its own.
C31_Witness ==
    /\ frame = 2 /\ ~abandoned /\ pc = "frame"
    /\ Len(submitted) < ops
    /\ \E i \in DrawCalls : \A k \in 1..Len(passes[i].vertex_buffer) :
          passes[i].vertex_buffer[k].frame = 2

\* The last m elements of data.
Last(data, m) == SubSeq(data, Len(data) - m + 1, Len(data))

\* The number of vertices pending in the buffers c and t or recorded in ps.
Held(c, t, ps) == Len(c) + Len(t) + Len(Vertices(Recorded(ps)))

\* The call returned having appended exactly m vertices to data.
AppendedTo(data, m) ==
    /\ pc' = "frame"
    /\ Len(data) >= m
    /\ Held(colored_data', textured_data', passes')
          = Held(colored_data, textured_data, passes) + m

\* C32: attribute lists are paired by position and cut to the shortest:
\* a chunk of tri_list_c appends min(|positions|, |colors|) vertices, one of
\* tri_list_uv min(|xys|, |uvs|), one of tri_list_uv_c
\* min(|xys|, |uvs|, |colors|); the i-th vertex appended has the i-th
\* element of each list; the call returns whatever the lengths.
C32_ZipTruncation ==
    [][/\ \A positions \in PositionLists, colors \in ColorLists :
             TriListCZip(DefaultDrawState, positions, colors) =>
                 LET m == Min(Len(positions), Len(colors))
                     new == Last(colored_data', m)
                 IN /\ AppendedTo(colored_data', m)
                    /\ \A i \in 1..m : /\ new[i].position = positions[i]
                                       /\ new[i].color = colors[i]
       /\ \A xys \in PositionLists, uvs \in UvLists :
             TriListUvZip(DefaultDrawState, "texA", <<"color", 0>>, xys, uvs) =>
                 LET m == Min(Len(xys), Len(uvs))
                     new == Last(textured_data', m)
                 IN /\ AppendedTo(textured_data', m)
                    /\ \A i \in 1..m : /\ new[i].position = xys[i]
                                       /\ new[i].uv = Some(uvs[i])
                                       /\ new[i].color = <<"color", 0>>
       /\ \A xys \in PositionLists, uvs \in UvLists, colors \in ColorLists :
             TriListUvCZip(DefaultDrawState, "texA", xys, uvs, colors) =>
                 LET m == Min(Min(Len(xys), Len(uvs)), Len(colors))
                     new == Last(textured_data', m)
                 IN /\ AppendedTo(textured_data', m)
                    /\ \A i \in 1..m : /\ new[i].position = xys[i]
                                       /\ new[i].uv = Some(uvs[i])
                                       /\ new[i].color = colors[i]]_vars

\* A chunk of tri_list_uv_c with three lists of three lengths, cut to the
\* shortest, and a chunk of tri_list_c whose color list was the longer one.
C32_Witness ==
    /\ pc = "frame"
    /\ \E k \in 1..Len(submitted) :
          /\ submitted[k].given = <<3, 2, 1>> /\ submitted[k].chunk = 1
    /\ \E k \in 1..Len(submitted) :
          /\ submitted[k].given = <<1, 3>> /\ submitted[k].chunk = 1

\* The bytes of a vertex that attribute a of a layout reads.
AttributeBytes(a) == a.offset .. (a.offset + VertexFormatSize(a.format) - 1)

\* Layout d has the stride and the attribute offsets and sizes given, its
\* attributes are the fields of the struct, where #[repr(C)] places them,
\* no two attributes overlap and together they cover the stride.
LayoutIs(d, fields, stride, offsets, sizes) ==
    /\ d.array_stride = stride /\ stride = size_of(fields)
    /\ Len(d.attributes) = Len(fields)
    /\ [i \in 1..Len(d.attributes) |-> d.attributes[i].offset] = offsets
    /\ [i \in 1..Len(d.attributes) |-> VertexFormatSize(d.attributes[i].format)] = sizes
    /\ \A i \in 1..Len(fields) :
          /\ d.attributes[i].offset = offset_of(fields, i)
          /\ VertexFormatSize(d.attributes[i].format) = size_of_array(fields[i].len)
    /\ \A i, j \in 1..Len(d.attributes) :
          i # j => AttributeBytes(d.attributes[i]) \cap AttributeBytes(d.attributes[j]) = {}
    /\ UNION {AttributeBytes(d.attributes[i]) : i \in 1..Len(d.attributes)}
          = 0 .. (stride - 1)

\* C33: the one vertex buffer layout of the colored pipelines has stride
\* 24 with position at 0 (8 bytes) and color at 8 (16 bytes); that of the
\* textured pipelines has stride 32 with xy at 0, uv at 8 and color at 16
\* (8, 8 and 16 bytes); each matches its vertex struct, without overlap and
\* covering the stride; and every draw call reads a buffer of the struct
\* of its kind with a pipeline of that kind.
C33_VertexLayouts ==
    /\ Len(vertex_buffers("colored")) = 1
    /\ LayoutIs(vertex_buffers("colored")[1], ColoredPipelineInput,
                24, <<0, 8>>, <<8, 16>>)
    /\ Len(vertex_buffers("textured")) = 1
    /\ LayoutIs(vertex_buffers("textured")[1], TexturedPipelineInput,
                32, <<0, 8, 16>>, <<8, 8, 16>>)
    /\ \A k \in DrawCalls : passes[k].pipeline[1].kind = passes[k].kind

\* A colored and a textured draw call, each with a pipeline whose layout
\* is that of its vertex struct.
C33_Witness ==
    \E i, j \in DrawCalls :
        /\ passes[i].kind = "colored"
        /\ vertex_buffers(passes[i].pipeline[1].kind)[1].array_stride = 24
        /\ passes[j].kind = "textured"
        /\ vertex_buffers(passes[j].pipeline[1].kind)[1].array_stride = 32
        /\ vertex_buffers(passes[j].pipeline[1].kind)[1].attributes[3].offset = 16

====
